---- MODULE Spec2Model ----
(***************************************************************************)
(* A state-machine model of lib_table_top's rule engines.                  *)
(*                                                                         *)
(* Crazy Eights (src/src/games/crazy_eights.rs): the GameState value a     *)
(* caller holds, advanced by apply_action.  A card is the pair             *)
(* <<rank, suit>> (Card(rank, suit)), a rank its repr(u8) value 1..13, a   *)
(* player its repr(u8) value 0..7, an action one of <<"Draw">>,            *)
(* <<"Play", card>>, <<"PlayEight", card, suit>>.                          *)
(***************************************************************************)
EXTENDS Integers, Sequences, FiniteSets, TLC

\* ------------------------------------------------------------- bounds

\* Number of ranks of the deck that are in play (the library's deck has 13).
NumRanks == 4

\* Number of moves of a game in which the players choose freely, and the
\* number of moves of a game in all: after MaxHistory moves every player
\* applies current_player_view().valid_actions().pop(), as the library's
\* own doc tests do.
MaxHistory == 2

MaxMoves == 24

\* Number of moves of each of the two games whose views are compared.
MaxViewMoves == 1

\* The largest seed of the games that are dealt from the whole deck.
MaxDealSeed == 15

\* Number of moves of a game of Marooned in which the players choose
\* freely; after them every player applies valid_actions().next() until
\* the game is over.
MaxMaroonedMoves == 1

\* The seeds games are created from.
Seeds == {2, 1415, 2183}

\* ------------------------------------------------- common::deck, rand

Eight == 8

SuitALL == <<"Clubs", "Diamonds", "Hearts", "Spades">>

Suits == {SuitALL[i] : i \in DOMAIN SuitALL}

\* STANDARD_DECK lists Hearts, Spades, Diamonds, Clubs, each from Ace, King
\* down to Two.
STANDARD_DECK ==
    LET ranks == <<1, 13, 12, 11, 10, 9, 8, 7, 6, 5, 4, 3, 2>>
        suits == <<"Hearts", "Spades", "Diamonds", "Clubs">>
    IN  [i \in 1..52 |-> <<ranks[((i - 1) % 13) + 1], suits[((i - 1) \div 13) + 1]>>]

\* The ranks in play: Eight and the NumRanks - 1 ranks that follow it
\* (wrapping from King to Ace); all 13 when NumRanks = 13.
RanksInPlay == {r \in 1..13 : ((r + 5) % 13) < NumRanks}

\* The deck a game is dealt from: STANDARD_DECK, in its order, cut down to
\* the ranks in play.
Deck == SelectSeq(STANDARD_DECK, LAMBDA c : c[1] \in RanksInPlay)

Cards == {Deck[i] : i \in DOMAIN Deck}

\* RngSeed::into_rng: a generator is its seed and the position in the
\* seed's output stream (ChaCha20Rng is a counter-mode generator).
into_rng(seed) == [seed |-> seed, word_pos |-> 0]

\* The generator's next output word; a 16-bit mixing function stands for
\* the ChaCha20 block function.
next_u32(rng) ==
    LET h1 == (rng.seed * 25173 + rng.word_pos * 13849 + 1) % 65536
        h2 == (h1 * 25173 + 13849) % 65536
    IN  [value |-> h2 \div 16, rng |-> [rng EXCEPT !.word_pos = @ + 1]]

\* rand's gen_index: an index below ubound, advancing the generator.
gen_index(rng, ubound) ==
    LET n == next_u32(rng)
    IN  [index |-> n.value % ubound, rng |-> n.rng]

swap(s, i, j) == [s EXCEPT ![i] = s[j], ![j] = s[i]]

\* SliceRandom::shuffle: for i in (1..len).rev() { swap(i, gen_index(rng, i + 1)) }
\* (positions here are 1-based).
RECURSIVE shuffle_from(_, _, _)
shuffle_from(cards, rng, i) ==
    IF i < 2
    THEN [cards |-> cards, rng |-> rng]
    ELSE LET g == gen_index(rng, i)
         IN  shuffle_from(swap(cards, i, g.index + 1), g.rng, i - 1)

shuffle(cards, rng) == shuffle_from(cards, rng, Len(cards))

\* ------------------------------------------------------- crazy_eights

Player == 0..7

\* A deal of five cards to each player, whatever their number.
starting_number_of_cards_always_five(n) == 5

starting_number_of_cards_per_player(n) == IF n = 2 THEN 7 ELSE 5

\* NumberOfPlayers::players: the first n players, in order.
players(n) == [i \in 1..n |-> i - 1]

\* The values of NumberOfPlayers a game can be dealt for: the deck holds
\* every hand and the top card ("Can't fail because deck is 52 cards").
NumberOfPlayers ==
    {n \in 2..8 : n * starting_number_of_cards_per_player(n) + 1 <= Len(Deck)}

SettingsSet == [seed : Seeds, number_of_players : NumberOfPlayers]

Draw == <<"Draw">>

Play(card) == <<"Play", card>>

PlayEight(card, suit) == <<"PlayEight", card, suit>>

Action ==
    {Draw} \cup {Play(c) : c \in Cards}
           \cup {PlayEight(c, s) : c \in Cards, s \in Suits}

Ok(v) == [tag |-> "Ok", value |-> v]

Err(e) == [tag |-> "Err", value |-> e]

contains(s, x) == \E i \in DOMAIN s : s[i] = x

\* GameState::new, the deck being a parameter: the deck is shuffled, the
\* hands are taken from its front in player order, then the top card, and
\* the rest is the draw pile.
new_from(deck, settings) ==
    LET sh    == shuffle(deck, into_rng(settings.seed))
        cards == sh.cards
        n     == settings.number_of_players
        k     == starting_number_of_cards_per_player(n)
    IN  [game_history |-> [settings |-> settings, history |-> <<>>],
         rng          |-> sh.rng,
         draw_pile    |-> SubSeq(cards, n * k + 2, Len(cards)),
         hands        |-> [p \in Player |->
                              IF p < n
                              THEN SubSeq(cards, p * k + 1, (p + 1) * k)
                              ELSE <<>>],
         top_card     |-> cards[n * k + 1],
         current_suit |-> cards[n * k + 1][2],
         discarded    |-> <<>>]

\* GameState::new
new(settings) == new_from(Deck, settings)

\* GameHistory::whose_turn
history_whose_turn(gh) ==
    Len(gh.history) % gh.settings.number_of_players

\* GameState::whose_turn
whose_turn(g) == history_whose_turn(g.game_history)

\* GameState::players
game_players(g) == players(g.game_history.settings.number_of_players)

\* GameState::game_history
game_history(g) == g.game_history

\* GameHistory::history: each action zipped with the cycling players.
history(gh) ==
    [i \in 1..Len(gh.history) |->
        <<(i - 1) % gh.settings.number_of_players, gh.history[i]>>]

player_hand(g, player) == g.hands[player]

\* A predicate that forgets the rank of the top card.
valid_to_play_without_rank(g, card) ==
    \/ card[1] = Eight
    \/ card[2] = g.current_suit

valid_to_play(g, card) ==
    \/ card[1] = Eight
    \/ card[1] = g.top_card[1]
    \/ card[2] = g.current_suit

\* A validation that looks at the shape of the action before the turn.
validate_action_structure_turn_last(g, player, action) ==
    IF action[1] = "Play" /\ action[2][1] = Eight
    THEN Err(<<"CantPlayEightAsRegularCard", action[2]>>)
    ELSE IF action[1] = "PlayEight" /\ action[2][1] # Eight
    THEN Err(<<"CantPlayNonEightAsEight", action[2]>>)
    ELSE IF player # whose_turn(g)
    THEN Err(<<"NotPlayerTurn", player, whose_turn(g)>>)
    ELSE Ok(<<>>)

validate_action_structure(g, player, action) ==
    IF player # whose_turn(g)
    THEN Err(<<"NotPlayerTurn", player, whose_turn(g)>>)
    ELSE IF action[1] = "Play" /\ action[2][1] = Eight
    THEN Err(<<"CantPlayEightAsRegularCard", action[2]>>)
    ELSE IF action[1] = "PlayEight" /\ action[2][1] # Eight
    THEN Err(<<"CantPlayNonEightAsEight", action[2]>>)
    ELSE Ok(<<>>)

\* A play that discards the played card in place of the old top card.
play_card_discards_played(g, player, card) ==
    IF ~contains(g.hands[player], card)
    THEN Err(<<"PlayerDoesNotHaveCard", player, card>>)
    ELSE IF ~(card[1] = Eight \/ card[1] = g.top_card[1] \/ card[2] = g.current_suit)
    THEN Err(<<"CardCantBePlayed", card, g.top_card, g.current_suit>>)
    ELSE Ok([g EXCEPT
                !.top_card = card,
                !.discarded = Append(@, card),
                !.hands[player] = SelectSeq(@, LAMBDA c : c # card)])

\* A play that asks whether the card matches before it asks whether the
\* player holds it.
play_card_match_first(g, player, card) ==
    IF ~valid_to_play(g, card)
    THEN Err(<<"CardCantBePlayed", card, g.top_card, g.current_suit>>)
    ELSE IF ~contains(player_hand(g, player), card)
    THEN Err(<<"PlayerDoesNotHaveCard", player, card>>)
    ELSE Ok([g EXCEPT
                !.top_card = card,
                !.discarded = Append(@, g.top_card),
                !.hands[player] = SelectSeq(@, LAMBDA c : c # card)])

play_card(g, player, card) ==
    IF ~contains(player_hand(g, player), card)
    THEN Err(<<"PlayerDoesNotHaveCard", player, card>>)
    ELSE IF ~valid_to_play(g, card)
    THEN Err(<<"CardCantBePlayed", card, g.top_card, g.current_suit>>)
    ELSE Ok([g EXCEPT
                !.top_card = card,
                !.discarded = Append(@, g.top_card),
                !.hands[player] = SelectSeq(@, LAMBDA c : c # card)])

\* A reshuffle that leaves the discard pile as it was.
reshuffle_keeps_discarded(g) ==
    LET sh == shuffle(g.draw_pile \o g.discarded, g.rng)
    IN  [g EXCEPT !.draw_pile = sh.cards,
                  !.rng = sh.rng]

\* A reshuffle with a generator made afresh from the seed.
reshuffle_from_seed(g) ==
    LET sh == shuffle(g.draw_pile \o g.discarded,
                      into_rng(g.game_history.settings.seed))
    IN  [g EXCEPT !.draw_pile = sh.cards,
                  !.discarded = <<>>,
                  !.rng = sh.rng]

reshuffle(g) ==
    LET sh == shuffle(g.draw_pile \o g.discarded, g.rng)
    IN  [g EXCEPT !.draw_pile = sh.cards,
                  !.discarded = <<>>,
                  !.rng = sh.rng]

\* A draw that hands out the top card when the draw pile is empty.
draw_card_or_top_card(g, player) ==
    IF g.draw_pile = <<>>
    THEN [g EXCEPT !.hands[player] = Append(@, g.top_card)]
    ELSE [g EXCEPT
            !.hands[player] = Append(@, g.draw_pile[Len(g.draw_pile)]),
            !.draw_pile = SubSeq(@, 1, Len(@) - 1)]

\* A draw that takes the card at the front of the draw pile.
draw_card_from_front(g, player) ==
    IF g.draw_pile = <<>>
    THEN g
    ELSE [g EXCEPT
            !.hands[player] = Append(@, g.draw_pile[1]),
            !.draw_pile = SubSeq(@, 2, Len(@))]

\* draw_pile.pop_back() moved into the player's hand (nothing when empty).
draw_card(g, player) ==
    IF g.draw_pile = <<>>
    THEN g
    ELSE [g EXCEPT
            !.hands[player] = Append(@, g.draw_pile[Len(g.draw_pile)]),
            !.draw_pile = SubSeq(@, 1, Len(@) - 1)]

\* A history that does not record draws.
push_history_without_draws(g, action) ==
    IF action = <<"Draw">>
    THEN g
    ELSE [g EXCEPT !.game_history.history = Append(@, action)]

push_history(g, action) ==
    [g EXCEPT !.game_history.history = Append(@, action)]

\* An apply_action whose Play leaves current_suit as it was.
apply_action_play_keeps_suit(g, player, action) ==
    LET v == validate_action_structure(g, player, action)
    IN  IF v.tag = "Err" THEN v
        ELSE IF action[1] = "Draw"
        THEN LET playable == SelectSeq(player_hand(g, player),
                                       LAMBDA c : valid_to_play(g, c))
             IN  IF playable # <<>>
                 THEN Err(<<"CantDrawWhenYouHavePlayableCards", player, playable>>)
                 ELSE LET g1 == IF g.draw_pile = <<>> THEN reshuffle(g) ELSE g
                      IN  Ok(push_history(draw_card(g1, player), action))
        ELSE LET r == play_card(g, player, action[2])
             IN  IF r.tag = "Err" THEN r
                 ELSE IF action[1] = "Play"
                 THEN Ok(push_history(r.value, action))
                 ELSE Ok(push_history(
                        [r.value EXCEPT !.current_suit = action[3]], action))

\* GameState::apply_action
apply_action(g, player, action) ==
    LET v == validate_action_structure(g, player, action)
    IN  IF v.tag = "Err" THEN v
        ELSE IF action[1] = "Draw"
        THEN LET playable == SelectSeq(player_hand(g, player),
                                       LAMBDA c : valid_to_play(g, c))
             IN  IF playable # <<>>
                 THEN Err(<<"CantDrawWhenYouHavePlayableCards", player, playable>>)
                 ELSE LET g1 == IF g.draw_pile = <<>> THEN reshuffle(g) ELSE g
                      IN  Ok(push_history(draw_card(g1, player), action))
        ELSE LET r == play_card(g, player, action[2])
             IN  IF r.tag = "Err" THEN r
                 ELSE IF action[1] = "Play"
                 THEN Ok(push_history(
                        [r.value EXCEPT !.current_suit = action[2][2]], action))
                 ELSE Ok(push_history(
                        [r.value EXCEPT !.current_suit = action[3]], action))

\* GameState::status: the first player with an empty hand wins.
status(g) ==
    LET ps    == game_players(g)
        empty == {i \in DOMAIN ps : g.hands[ps[i]] = <<>>}
    IN  IF empty = {}
        THEN <<"InProgress">>
        ELSE <<"Win", ps[CHOOSE i \in empty : \A j \in empty : i <= j]>>

\* A view that counts nothing and shows the hands.
observer_view_with_hands(g) ==
    [current_suit        |-> g.current_suit,
     discarded           |-> g.discarded,
     draw_pile_remaining |-> Len(g.draw_pile) % 256,
     player_card_count   |-> [p \in {i \in Player : i < g.game_history.settings.number_of_players}
                                |-> g.hands[p]],
     top_card            |-> g.top_card,
     whose_turn          |-> Len(g.game_history.history)
                                % g.game_history.settings.number_of_players]

\* GameState::observer_view
observer_view(g) ==
    [current_suit        |-> g.current_suit,
     discarded           |-> g.discarded,
     draw_pile_remaining |-> Len(g.draw_pile) % 256,
     player_card_count   |-> [p \in {game_players(g)[i] : i \in DOMAIN game_players(g)}
                                |-> Len(g.hands[p])],
     top_card            |-> g.top_card,
     whose_turn          |-> history_whose_turn(g.game_history)]

\* GameState::player_view
player_view(g, player) ==
    [player        |-> player,
     hand          |-> g.hands[player],
     observer_view |-> observer_view(g)]

\* GameState::current_player_view
current_player_view(g) == player_view(g, whose_turn(g))

\* A listing that forgets the rank of the top card.
card_actions_without_rank(view, card) ==
    IF card[1] = Eight
    THEN [i \in DOMAIN SuitALL |-> PlayEight(<<Eight, card[2]>>, SuitALL[i])]
    ELSE IF card[2] = view.observer_view.current_suit
    THEN <<Play(card)>>
    ELSE <<>>

\* The actions one card of the hand contributes to valid_actions.
card_actions(view, card) ==
    IF card[1] = Eight
    THEN [i \in DOMAIN SuitALL |-> PlayEight(<<Eight, card[2]>>, SuitALL[i])]
    ELSE IF \/ card[1] = view.observer_view.top_card[1]
            \/ card[2] = view.observer_view.current_suit
    THEN <<Play(card)>>
    ELSE <<>>

RECURSIVE flat_map_actions(_, _)
flat_map_actions(view, hand) ==
    IF hand = <<>>
    THEN <<>>
    ELSE card_actions(view, Head(hand)) \o flat_map_actions(view, Tail(hand))

\* PlayerView::valid_actions
valid_actions(view) ==
    IF view.observer_view.whose_turn = view.player
    THEN LET playable == flat_map_actions(view, view.hand)
         IN  IF playable = <<>> THEN <<Draw>> ELSE playable
    ELSE <<>>

\* GameHistory::game_state: replay from a new game, the player of each
\* action being the player whose turn it is.
RECURSIVE try_fold(_, _)
try_fold(acc, actions) ==
    IF acc.tag = "Err" \/ actions = <<>>
    THEN acc
    ELSE try_fold(apply_action(acc.value, whose_turn(acc.value), Head(actions)),
                  Tail(actions))

\* A replay that applies every action as P0.
game_state_as_first_player(gh) ==
    LET RECURSIVE fold(_, _)
        fold(acc, actions) ==
            IF acc.tag = "Err" \/ actions = <<>>
            THEN acc
            ELSE fold(apply_action(acc.value, 0, Head(actions)), Tail(actions))
    IN  fold(Ok(new(gh.settings)), gh.history)

game_state(gh) == try_fold(Ok(new(gh.settings)), gh.history)

\* ------------------------------------------------------------- state

VARIABLES
    game,      \* the GameState the caller holds
    result,    \* the variant returned by the last call on it
    other      \* a second GameState: an independent game (ViewSpec), the
               \* clone taken before the last call (MaroonedSpec)

vars == <<game, result, other>>

Init ==
    /\ \E settings \in SettingsSet :
          /\ game = new(settings)
          /\ other = new(settings)
    /\ result = "None"

\* The tag of a Result: "Ok" or the ActionError variant.
result_tag(r) == IF r.tag = "Ok" THEN "Ok" ELSE r.value[1]

\* A caller whose game records the action also when it is rejected.
ApplyActionRecordingRejected(player, action) ==
    LET r == apply_action(game, player, action)
    IN  /\ result' = result_tag(r)
        /\ game' = IF r.tag = "Ok"
                   THEN r.value
                   ELSE [game EXCEPT !.game_history.history = Append(@, action)]
        /\ UNCHANGED other

\* let game = game.apply_action((player, action))?  The caller keeps its
\* game on Err.
ApplyAction(player, action) ==
    LET r == apply_action(game, player, action)
    IN  /\ result' = result_tag(r)
        /\ game' = IF r.tag = "Ok" THEN r.value ELSE game
        /\ UNCHANGED other

\* The players given to apply_action: those of the game.
Callers == {p \in Player : p < game.game_history.settings.number_of_players}

FreePlay == Len(game.game_history.history) < MaxHistory

ApplyDraw ==
    \E p \in Callers :
        /\ FreePlay
        /\ ApplyAction(p, Draw)

ApplyPlay ==
    \E p \in Callers, c \in Cards :
        /\ FreePlay
        /\ ApplyAction(p, Play(c))

ApplyPlayEight ==
    \E p \in Callers, c \in Cards, s \in Suits :
        /\ FreePlay
        /\ ApplyAction(p, PlayEight(c, s))

\* The loop of the library's doc tests, once the free moves are made:
\*   let action = game.current_player_view().valid_actions().pop().unwrap();
\*   let player = game.whose_turn();
\*   game.apply_action((player, action)).unwrap()
ApplyLastValidAction ==
    /\ ~FreePlay
    /\ Len(game.game_history.history) < MaxMoves
    /\ LET va == valid_actions(current_player_view(game))
       IN  ApplyAction(whose_turn(game), va[Len(va)])

Next == ApplyDraw \/ ApplyPlay \/ ApplyPlayEight \/ ApplyLastValidAction

Spec == Init /\ [][Next]_vars

\* --------------------------------------------------- two games, views

\* Two games created independently of each other.
ViewInit ==
    /\ \E settings \in SettingsSet : game = new(settings)
    /\ \E settings \in SettingsSet : other = new(settings)
    /\ result = "None"

\* The games a game can become by one valid action of the current player.
successors(g) ==
    LET va == valid_actions(current_player_view(g))
    IN  {apply_action(g, whose_turn(g), va[i]).value : i \in DOMAIN va}

AdvanceGame ==
    /\ Len(game.game_history.history) < MaxViewMoves
    /\ game' \in successors(game)
    /\ UNCHANGED <<other, result>>

AdvanceOther ==
    /\ Len(other.game_history.history) < MaxViewMoves
    /\ other' \in successors(other)
    /\ UNCHANGED <<game, result>>

ViewNext == AdvanceGame \/ AdvanceOther

ViewSpec == ViewInit /\ [][ViewNext]_vars

\* ------------------------------------------- the deal of the whole deck

\* Every NumberOfPlayers (Two .. Eight) with the seeds 0 .. MaxDealSeed.
DealSettings == [seed : 0..MaxDealSeed, number_of_players : 2..8]

\* The first game dealt: two players, seed 0.
DealInit ==
    /\ game = new_from(STANDARD_DECK, [seed |-> 0, number_of_players |-> 2])
    /\ other = game
    /\ result = "None"

\* let game = GameState::new(Arc::new(settings));
NewGame ==
    \E settings \in DealSettings :
        /\ game' = new_from(STANDARD_DECK, settings)
        /\ other' = game'
        /\ UNCHANGED result

DealNext == NewGame

DealSpec == DealInit /\ [][DealNext]_vars

\* ------------------------------------------------------------- claims

last(s) == s[Len(s)]

moves(g) == g.game_history.history

toSet(s) == {s[i] : i \in DOMAIN s}

number_of_players(g) == g.game_history.settings.number_of_players

RECURSIVE concat_hands(_, _)
concat_hands(hands, p) ==
    IF p > 7 THEN <<>> ELSE hands[p] \o concat_hands(hands, p + 1)

\* Every card a game holds: the hands, the draw pile, the discard pile and
\* the top card.
all_cards(g) ==
    concat_hands(g.hands, 0) \o g.draw_pile \o g.discarded \o <<g.top_card>>

\* The generator has been advanced since the deal: a reshuffle of two or
\* more cards has taken place.
reshuffled(g) == g.rng.word_pos > Len(Deck) - 1

\* C1: card conservation.  In every state reached from GameState::new by
\* accepted apply_action calls, the hands, the draw pile, the discard pile
\* and top_card together hold exactly the cards of the deck, each once.
C1_CardConservation ==
    /\ Len(all_cards(game)) = Len(Deck)
    /\ toSet(all_cards(game)) = Cards
    /\ Cardinality(Cards) = Len(Deck)

\* A draw that reshuffled the discard pile has just been accepted.
C1_Witness ==
    /\ result = "Ok"
    /\ moves(game) # <<>>
    /\ last(moves(game)) = Draw
    /\ reshuffled(game)
    /\ game.discarded = <<>>
    /\ Len(game.draw_pile) >= 1

\* C2: replay equivalence.  The history of a state holds the settings and
\* the accepted actions in order (each accepted call appends its action and
\* nothing else changes the history), and replaying it with
\* GameHistory::game_state gives Ok of a state equal to the live one in
\* every field.
C2_ReplayEquivalence ==
    /\ [](LET r == game_state(game_history(game))
          IN  /\ r.tag = "Ok"
              /\ r.value = game)
    /\ [][/\ game_history(game').settings = game_history(game).settings
          /\ result' # "Ok" => moves(game') = moves(game)
          /\ result' = "Ok" =>
                \E a \in Action :
                    /\ moves(game') = Append(moves(game), a)
                    /\ apply_action(game, whose_turn(game), a).tag = "Ok"
                    /\ apply_action(game, whose_turn(game), a).value = game']_vars

\* A state whose history holds a reshuffling draw followed by a play.
C2_Witness ==
    /\ reshuffled(game)
    /\ Len(moves(game)) >= 3
    /\ last(moves(game))[1] = "Play"
    /\ \E i \in DOMAIN moves(game) : moves(game)[i] = Draw

\* C3: legality soundness.  Every action of the current player's
\* valid_actions() is accepted by apply_action.
C3_LegalitySoundness ==
    LET p  == whose_turn(game)
        va == valid_actions(player_view(game, p))
    IN  \A i \in DOMAIN va : apply_action(game, p, va[i]).tag = "Ok"

\* The current player may play a card of the top card's rank and of another
\* suit than the current one, after an accepted action.
C3_Witness ==
    /\ result = "Ok"
    /\ \E c \in toSet(game.hands[whose_turn(game)]) :
          /\ c[1] # Eight
          /\ c[1] = game.top_card[1]
          /\ c[2] # game.current_suit
          /\ Play(c) \in toSet(valid_actions(current_player_view(game)))

\* C4: legality completeness.  For every player and every action, an
\* action that is not in the player's valid_actions() is rejected.
C4_LegalityCompleteness ==
    \A p \in Player :
        LET va == toSet(valid_actions(player_view(game, p)))
        IN  \A a \in Action :
                a \notin va => apply_action(game, p, a).tag = "Err"

\* A card of the current player's hand was refused as unplayable.
C4_Witness ==
    /\ result = "CardCantBePlayed"
    /\ \E c \in toSet(game.hands[whose_turn(game)]) :
          /\ Play(c) \notin toSet(valid_actions(current_player_view(game)))
          /\ c[1] # Eight

same_public(g, h) ==
    /\ number_of_players(g) = number_of_players(h)
    /\ whose_turn(g) = whose_turn(h)
    /\ g.current_suit = h.current_suit
    /\ g.discarded = h.discarded
    /\ g.top_card = h.top_card
    /\ Len(g.draw_pile) = Len(h.draw_pile)
    /\ \A p \in Player : Len(g.hands[p]) = Len(h.hands[p])

\* C7: view privacy.  Two reachable states that agree on what is public
\* have the same observer_view(), and if they agree on player p's hand as
\* well they have the same player_view(p), however the other hands and the
\* draw pile differ.
C7_ViewPrivacy ==
    same_public(game, other) =>
        /\ observer_view(game) = observer_view(other)
        /\ \A p \in Player :
              game.hands[p] = other.hands[p] =>
                  player_view(game, p) = player_view(other, p)

\* Two games that agree on what is public and on a player's hand, while
\* another player holds different cards in the two.
C7_Witness ==
    /\ same_public(game, other)
    /\ \E p, q \in Player :
          /\ p < number_of_players(game)
          /\ q < number_of_players(game)
          /\ game.hands[p] = other.hands[p]
          /\ game.hands[p] # <<>>
          /\ toSet(game.hands[q]) # toSet(other.hands[q])

\* The cards of the current player's hand that may be played as they are.
matching(g) ==
    {c \in toSet(g.hands[whose_turn(g)]) :
        /\ c[1] # Eight
        /\ c[1] = g.top_card[1] \/ c[2] = g.current_suit}

eights(g) == {c \in toSet(g.hands[whose_turn(g)]) : c[1] = Eight}

\* C9: valid_actions content.  Empty for a player whose turn it is not;
\* for the current player one PlayEight per eight of the hand and suit,
\* one Play per other card of the hand that has the top card's rank or the
\* current suit, nothing else and nothing twice; exactly [Draw] when the
\* hand has no eight and no matching card; Draw never beside a play.
C9_ValidActionsContent ==
    \A p \in Player :
        LET va == valid_actions(player_view(game, p))
        IN  IF p # whose_turn(game)
            THEN va = <<>>
            ELSE /\ (eights(game) = {} /\ matching(game) = {}) => va = <<Draw>>
                 /\ (eights(game) # {} \/ matching(game) # {}) =>
                        toSet(va) =
                            {PlayEight(c, s) : c \in eights(game), s \in Suits}
                                \cup {Play(c) : c \in matching(game)}
                 /\ Cardinality(toSet(va)) = Len(va)
                 /\ Draw \in toSet(va) => va = <<Draw>>

\* The current player holds an eight, a card of the top card's rank and
\* another suit, and a card that may not be played.
C9_Witness ==
    /\ result = "Ok"
    /\ eights(game) # {}
    /\ \E c \in matching(game) : c[2] # game.current_suit
    /\ \E c \in toSet(game.hands[whose_turn(game)]) :
          c \notin eights(game) \cup matching(game)

\* C10: effect of an accepted Play(c) or PlayEight(c, s) of player p.  The
\* previous top card is appended to the discard pile, c is the new top
\* card, c has left p's hand, which is otherwise unchanged and one card
\* smaller, current_suit is c's suit (Play) or s (PlayEight), and the draw
\* pile, the generator and the other hands are unchanged.
C10_EffectOfAcceptedPlay ==
    [][(/\ result' = "Ok"
        /\ moves(game') # moves(game)
        /\ last(moves(game'))[1] \in {"Play", "PlayEight"}) =>
            LET a == last(moves(game'))
                c == a[2]
                p == whose_turn(game)
            IN  /\ game'.discarded = Append(game.discarded, game.top_card)
                /\ game'.top_card = c
                /\ c \in toSet(game.hands[p])
                /\ c \notin toSet(game'.hands[p])
                /\ game'.hands[p] = SelectSeq(game.hands[p], LAMBDA x : x # c)
                /\ Len(game'.hands[p]) = Len(game.hands[p]) - 1
                /\ game'.current_suit = IF a[1] = "Play" THEN c[2] ELSE a[3]
                /\ game'.draw_pile = game.draw_pile
                /\ game'.rng = game.rng
                /\ \A q \in Player \ {p} : game'.hands[q] = game.hands[q]]_vars

\* An eight was played and another suit than its own was chosen.
C10_Witness ==
    /\ result = "Ok"
    /\ moves(game) # <<>>
    /\ last(moves(game))[1] = "PlayEight"
    /\ last(moves(game))[3] # last(moves(game))[2][2]
    /\ game.current_suit = last(moves(game))[3]
    /\ game.discarded # <<>>

\* The cards of player p's hand, in the hand's order, that are an eight,
\* have the top card's rank or have the current suit.
playable_cards(g, p) ==
    SelectSeq(g.hands[p],
              LAMBDA c : \/ c[1] = Eight
                         \/ c[1] = g.top_card[1]
                         \/ c[2] = g.current_suit)

\* C11: draw legality.  For the player p whose turn it is,
\* apply_action((p, Draw)) is accepted exactly when p's hand holds no card
\* that is an eight, has the top card's rank or has the current suit;
\* otherwise it returns CantDrawWhenYouHavePlayableCards for p, whose
\* playable list is exactly the cards of p's hand of that kind.
C11_DrawLegality ==
    LET p == whose_turn(game)
        r == apply_action(game, p, Draw)
    IN  /\ r.tag = "Ok" <=> playable_cards(game, p) = <<>>
        /\ playable_cards(game, p) # <<>> =>
              r = Err(<<"CantDrawWhenYouHavePlayableCards", p,
                        playable_cards(game, p)>>)

\* A draw was refused to a player who holds a card of the top card's rank
\* and another suit, and a card that may not be played.
C11_Witness ==
    /\ result = "CantDrawWhenYouHavePlayableCards"
    /\ \E c \in toSet(game.hands[whose_turn(game)]) :
          /\ c[1] # Eight
          /\ c[1] = game.top_card[1]
          /\ c[2] # game.current_suit
    /\ Len(playable_cards(game, whose_turn(game)))
          < Len(game.hands[whose_turn(game)])

\* C12: reshuffle on draw.  An accepted Draw in a state whose draw pile is
\* empty and whose discard pile holds k >= 1 cards leaves the discard pile
\* empty and top_card and current_suit as they were, gives the drawing
\* player exactly one card more, leaves k - 1 cards in the draw pile, and
\* the drawn card with the new draw pile are exactly the k cards of the old
\* discard pile (top_card not among them), shuffled from the generator
\* state the game carried, which is advanced and not made again from the
\* seed.
C12_ReshuffleOnDraw ==
    [][(/\ result' = "Ok"
        /\ moves(game') = Append(moves(game), Draw)
        /\ game.draw_pile = <<>>
        /\ game.discarded # <<>>) =>
            LET p     == whose_turn(game)
                k     == Len(game.discarded)
                sh    == shuffle(game.discarded, game.rng)
                drawn == last(game'.hands[p])
                pile  == Append(game'.draw_pile, drawn)
            IN  /\ game'.discarded = <<>>
                /\ game'.top_card = game.top_card
                /\ game'.current_suit = game.current_suit
                /\ game'.hands[p] = Append(game.hands[p], drawn)
                /\ \A q \in Player \ {p} : game'.hands[q] = game.hands[q]
                /\ Len(game'.draw_pile) = k - 1
                /\ toSet(pile) = toSet(game.discarded)
                /\ Cardinality(toSet(pile)) = k
                /\ game.top_card \notin toSet(pile)
                /\ pile = sh.cards
                /\ game'.rng = sh.rng
                /\ k >= 2 => game'.rng # shuffle(game.discarded,
                                into_rng(game.game_history.settings.seed)).rng]_vars

\* A draw has just reshuffled a discard pile of three or more cards: the
\* generator has moved on from the deal and two or more cards are left to
\* draw.
C12_Witness ==
    /\ result = "Ok"
    /\ moves(game) # <<>>
    /\ last(moves(game)) = Draw
    /\ game.discarded = <<>>
    /\ Len(game.draw_pile) >= 2
    /\ game.rng.word_pos >= Len(Deck) - 1 + Len(game.draw_pile)

\* C13: a draw with nothing to draw is a no-op.  When the player whose
\* turn it is holds no playable card and the draw pile and the discard
\* pile are both empty, apply_action((p, Draw)) returns Ok and the new
\* state has the hands, draw pile, discard pile, top_card and current_suit
\* of the old one.
C13_DrawWithNothingToDraw ==
    LET p == whose_turn(game)
        r == apply_action(game, p, Draw)
    IN  (/\ playable_cards(game, p) = <<>>
         /\ game.draw_pile = <<>>
         /\ game.discarded = <<>>) =>
            /\ r.tag = "Ok"
            /\ r.value.hands = game.hands
            /\ r.value.draw_pile = game.draw_pile
            /\ r.value.discarded = game.discarded
            /\ r.value.top_card = game.top_card
            /\ r.value.current_suit = game.current_suit

\* The first player's Draw was accepted with both piles empty: one move
\* made, and every hand is still the hand that was dealt.
C13_Witness ==
    /\ result = "Ok"
    /\ moves(game) = <<Draw>>
    /\ game.draw_pile = <<>>
    /\ game.discarded = <<>>
    /\ game.hands = new(game.game_history.settings).hands
    /\ game.hands[0] # <<>>

\* The players of the game whose hand is empty.
empty_handed(g) == {p \in Player : p < number_of_players(g) /\ g.hands[p] = <<>>}

\* An accepted Play or PlayEight of the last card of the player's hand.
last_card_played ==
    /\ result' = "Ok"
    /\ moves(game') # moves(game)
    /\ last(moves(game'))[1] \in {"Play", "PlayEight"}
    /\ Len(game.hands[whose_turn(game)]) = 1

\* C14 as stated: status() is Win{player} exactly when a player of the
\* game has an empty hand, player being the lowest-indexed such player, and
\* InProgress exactly when every hand is non-empty; the state produced by
\* an accepted Play or PlayEight of a player's last card reports Win for
\* that player.
C14_StatusAsStated ==
    /\ [](/\ status(game)[1] = "Win" <=> empty_handed(game) # {}
          /\ status(game)[1] = "Win" =>
                /\ status(game)[2] \in empty_handed(game)
                /\ \A q \in empty_handed(game) : status(game)[2] <= q
          /\ status(game) = <<"InProgress">> <=> empty_handed(game) = {})
    /\ [][last_card_played =>
            status(game') = <<"Win", whose_turn(game)>>]_vars

\* C15: the turn check comes first.  In every reachable state, for every
\* player p other than whose_turn() and every action, whatever its shape,
\* card or legality, apply_action((p, a)) returns
\* NotPlayerTurn{attempted_player: p, correct_player: whose_turn()}.
C15_TurnCheckComesFirst ==
    \A p \in Player \ {whose_turn(game)} :
        \A a \in Action :
            apply_action(game, p, a) =
                Err(<<"NotPlayerTurn", p, whose_turn(game)>>)

\* A call of a player out of turn was refused in a game that has moved
\* on from its first player.
C15_Witness ==
    /\ result = "NotPlayerTurn"
    /\ moves(game) # <<>>
    /\ whose_turn(game) # 0

P1 == 1

P2 == 2

marooned_Player == {P1, P2}

\* Player::opponent
opponent(player) == IF player = P1 THEN P2 ELSE P1

None == <<"None">>

Some(v) == <<"Some", v>>

unwrap_or(option, default) == IF option = None THEN default ELSE option[2]

\* u8::checked_add, u8::checked_sub
checked_add(a, b) == IF a + b > 255 THEN None ELSE Some(a + b)

checked_sub(a, b) == IF a - b < 0 THEN None ELSE Some(a - b)

\* iproduct!(a, b): the pairs of a and b, the elements of b changing
\* fastest.
iproduct(a, b) ==
    [i \in 1..(Len(a) * Len(b)) |->
        <<a[((i - 1) \div Len(b)) + 1], b[((i - 1) % Len(b)) + 1]>>]

\* The range 0..n of Rust: 0, 1, .., n - 1.
range(n) == [i \in 1..n |-> i - 1]

\* Dimensions::new
Dimensions_new(rows, cols) ==
    IF rows = 0 THEN Err(<<"InvalidDimensions">>)
    ELSE IF cols = 0 THEN Err(<<"InvalidDimensions">>)
    ELSE IF rows = 1 /\ cols = 1 THEN Err(<<"InvalidDimensions">>)
    ELSE Ok([rows |-> rows, cols |-> cols])

\* Dimensions::all_positions
all_positions(dimensions) ==
    iproduct(range(dimensions.cols), range(dimensions.rows))

\* Dimensions::is_position_on_board
is_position_on_board(dimensions, position) ==
    /\ position[2] < dimensions.rows
    /\ position[1] < dimensions.cols

\* Dimensions::checked_adjacent
checked_adjacent(starting_offset, max) ==
    LET vals    == <<checked_add(starting_offset, 1),
                     Some(starting_offset),
                     checked_sub(starting_offset, 1)>>
        somes   == SelectSeq(vals, LAMBDA o : o # None)
        offsets == [i \in DOMAIN somes |-> somes[i][2]]
    IN  SelectSeq(offsets, LAMBDA offset : offset < max)

\* Adjacency along the rows and columns only, not along the diagonals.
adjacenct_positions_without_diagonals(dimensions, position) ==
    SelectSeq(iproduct(checked_adjacent(position[1], dimensions.cols),
                       checked_adjacent(position[2], dimensions.rows)),
              LAMBDA p : /\ p # position
                         /\ p[1] = position[1] \/ p[2] = position[2])

\* Dimensions::adjacenct_positions
adjacenct_positions(dimensions, position) ==
    SelectSeq(iproduct(checked_adjacent(position[1], dimensions.cols),
                       checked_adjacent(position[2], dimensions.rows)),
              LAMBDA p : p # position)

\* Dimensions::default_player_starting_positions: the ceiling and the floor
\* of (cols - 1) / 2.
default_player_starting_positions(dimensions) ==
    [player \in marooned_Player |->
        IF player = P1
        THEN <<dimensions.cols \div 2, 0>>
        ELSE <<(dimensions.cols - 1) \div 2, dimensions.rows - 1>>]

\* The order of Position: by column, then by row.
position_lt(a, b) == a[1] < b[1] \/ (a[1] = b[1] /\ a[2] < b[2])

\* Vec::sort
sort(positions) == SortSeq(positions, position_lt)

\* Vec::dedup: consecutive repeated elements are removed.
RECURSIVE dedup(_)
dedup(positions) ==
    IF Len(positions) < 2
    THEN positions
    ELSE IF positions[1] = positions[2]
    THEN dedup(Tail(positions))
    ELSE <<positions[1]>> \o dedup(Tail(positions))

\* SettingsBuilder { rows, cols, p1_starting, p2_starting,
\* starting_removed_positions }
SettingsBuilder(rows, cols, p1_starting, p2_starting, starting_removed_positions) ==
    [rows |-> rows, cols |-> cols,
     p1_starting |-> p1_starting, p2_starting |-> p2_starting,
     starting_removed_positions |-> starting_removed_positions]

\* Settings::new
Settings_new(builder) ==
    LET d == Dimensions_new(builder.rows, builder.cols)
    IN  IF d.tag = "Err" THEN d
        ELSE
        LET dimensions == d.value
            default_starting == default_player_starting_positions(dimensions)
            starting_player_positions ==
                [player \in marooned_Player |->
                    IF player = P1
                    THEN unwrap_or(builder.p1_starting, default_starting[P1])
                    ELSE unwrap_or(builder.p2_starting, default_starting[P2])]
            removed == builder.starting_removed_positions
            off == SelectSeq(removed,
                             LAMBDA pos : ~is_position_on_board(dimensions, pos))
            \* the checks of one player, None when they pass
            check(player) ==
                IF ~is_position_on_board(dimensions, starting_player_positions[player])
                THEN Some(<<"PlayersMustStartOnBoard", player,
                            starting_player_positions[player]>>)
                ELSE IF contains(removed, starting_player_positions[player])
                THEN Some(<<"PlayerCantStartOnRemovedSquare", player,
                            starting_player_positions[player]>>)
                ELSE None
        IN  IF off # <<>>
            THEN Err(<<"CantRemovePositionNotOnBoard", off[1]>>)
            ELSE IF check(P1) # None THEN Err(check(P1)[2])
            ELSE IF check(P2) # None THEN Err(check(P2)[2])
            ELSE IF starting_player_positions[P1] = starting_player_positions[P2]
            THEN Err(<<"PlayersCantStartAtSamePosition">>)
            ELSE Ok([dimensions |-> dimensions,
                     starting_player_positions |-> starting_player_positions,
                     starting_removed_positions |-> dedup(sort(removed))])

\* SettingsBuilder::build
build(builder) == Settings_new(builder)

\* GameState::new
marooned_new(settings) == [settings |-> settings, history |-> <<>>]

\* SettingsBuilder::build_game
build_game(builder) ==
    IF build(builder).tag = "Ok"
    THEN Ok(marooned_new(build(builder).value))
    ELSE build(builder)

\* Action { player, to, remove }
marooned_Action(player, to, remove) ==
    [player |-> player, to |-> to, remove |-> remove]

\* GameState::whose_turn
marooned_whose_turn(g) ==
    IF g.history = <<>>
    THEN P1
    ELSE opponent(g.history[Len(g.history)].player)

\* GameState::removed_positions
removed_positions(g) ==
    g.settings.starting_removed_positions
        \o [i \in DOMAIN g.history |-> g.history[i].remove]

\* GameState::player_position: where the player's latest action went to,
\* or where the player started.
player_position(g, player) ==
    LET own == SelectSeq(g.history, LAMBDA a : a.player = player)
    IN  IF own = <<>>
        THEN g.settings.starting_player_positions[player]
        ELSE own[Len(own)].to

\* A removal that may take a position that is removed already.
is_position_allowed_to_be_removed_again(g, position, player) ==
    /\ is_position_on_board(g.settings.dimensions, position)
    /\ ~(player_position(g, opponent(player)) = position)

\* GameState::is_position_allowed_to_be_removed
is_position_allowed_to_be_removed(g, position, player) ==
    /\ is_position_on_board(g.settings.dimensions, position)
    /\ ~contains(removed_positions(g), position)
    /\ ~(player_position(g, opponent(player)) = position)

\* GameState::removable_positions_for_player
removable_positions_for_player(g, player) ==
    SelectSeq(all_positions(g.settings.dimensions),
              LAMBDA pos : is_position_allowed_to_be_removed(g, pos, player))

\* GameState::removable_positions
removable_positions(g) ==
    removable_positions_for_player(g, marooned_whose_turn(g))

\* Movement targets that do not mind the other player.
allowed_movement_targets_onto_opponent(g, player) ==
    LET removed == removed_positions(g)
    IN  SelectSeq(adjacenct_positions(g.settings.dimensions,
                                      player_position(g, player)),
                  LAMBDA position : ~contains(removed, position))

\* GameState::allowed_movement_targets_for_player
allowed_movement_targets_for_player(g, player) ==
    LET removed == removed_positions(g)
        other_player_position == player_position(g, opponent(player))
    IN  SelectSeq(adjacenct_positions(g.settings.dimensions,
                                      player_position(g, player)),
                  LAMBDA position : /\ ~contains(removed, position)
                                    /\ position # other_player_position)

\* GameState::valid_actions
marooned_valid_actions(g) ==
    LET player == marooned_whose_turn(g)
        pairs  == SelectSeq(iproduct(allowed_movement_targets_for_player(g, player),
                                     removable_positions(g)),
                            LAMBDA tr : tr[1] # tr[2])
    IN  [i \in DOMAIN pairs |->
            marooned_Action(player, pairs[i][1], pairs[i][2])]

\* GameState::status
marooned_status(g) ==
    LET current_player == marooned_whose_turn(g)
    IN  IF allowed_movement_targets_for_player(g, current_player) = <<>>
        THEN <<"Win", opponent(current_player)>>
        ELSE <<"InProgress">>

\* A make_move that does not look for a movement target.
make_move_without_target_check(g, action) ==
    IF action.to = action.remove
    THEN [result |-> Err(<<"CantRemoveTheSamePositionAsMoveTo", action.to>>),
          game |-> g]
    ELSE IF action.player # marooned_whose_turn(g)
    THEN [result |-> Err(<<"OtherPlayerTurn", action.player>>), game |-> g]
    ELSE IF ~is_position_allowed_to_be_removed(g, action.remove, action.player)
    THEN [result |-> Err(<<"InvalidRemove", action.remove>>), game |-> g]
    ELSE [result |-> Ok(<<>>),
          game |-> [g EXCEPT !.history = Append(@, action)]]

\* A make_move that looks at the positions before it looks at the turn.
make_move_turn_check_last(g, action) ==
    IF action.to = action.remove
    THEN [result |-> Err(<<"CantRemoveTheSamePositionAsMoveTo", action.to>>),
          game |-> g]
    ELSE IF ~contains(allowed_movement_targets_for_player(g, action.player),
                      action.to)
    THEN [result |-> Err(<<"InvalidMoveToTarget", action.to, action.player>>),
          game |-> g]
    ELSE IF ~is_position_allowed_to_be_removed(g, action.remove, action.player)
    THEN [result |-> Err(<<"InvalidRemove", action.remove>>), game |-> g]
    ELSE IF action.player # marooned_whose_turn(g)
    THEN [result |-> Err(<<"OtherPlayerTurn", action.player>>), game |-> g]
    ELSE [result |-> Ok(<<>>),
          game |-> [g EXCEPT !.history = Append(@, action)]]

\* GameState::make_move(&mut self, action): the Result it returns and the
\* game it leaves.
make_move(g, action) ==
    IF action.to = action.remove
    THEN [result |-> Err(<<"CantRemoveTheSamePositionAsMoveTo", action.to>>),
          game |-> g]
    ELSE IF action.player # marooned_whose_turn(g)
    THEN [result |-> Err(<<"OtherPlayerTurn", action.player>>), game |-> g]
    ELSE IF ~contains(allowed_movement_targets_for_player(g, action.player),
                      action.to)
    THEN [result |-> Err(<<"InvalidMoveToTarget", action.to, action.player>>),
          game |-> g]
    ELSE IF ~is_position_allowed_to_be_removed(g, action.remove, action.player)
    THEN [result |-> Err(<<"InvalidRemove", action.remove>>), game |-> g]
    ELSE [result |-> Ok(<<>>),
          game |-> [g EXCEPT !.history = Append(@, action)]]

\* An undo that gives the last action back and keeps it in the history.
undo_without_pop(g) ==
    IF g.history = <<>>
    THEN [result |-> None, game |-> g]
    ELSE [result |-> Some(g.history[Len(g.history)]), game |-> g]

\* GameState::undo(&mut self): history.pop(), the Option it returns and the
\* game it leaves.
undo(g) ==
    IF g.history = <<>>
    THEN [result |-> None, game |-> g]
    ELSE [result |-> Some(g.history[Len(g.history)]),
          game |-> [g EXCEPT !.history = SubSeq(@, 1, Len(@) - 1)]]

\* ---------------------------------------------------- marooned, state
\* A game of Marooned is held in the variable game; result is the variant
\* of what the last call returned ("Built" for build_game) and other is
\* the clone of the game taken before that call.

\* The builders games are made from: the 3 x 3 board of the library's
\* test of a full game, the smallest square board, a board whose starting
\* positions and removed positions (unsorted, one twice) are given, a board
\* on which P1 starts surrounded by removed positions, and a board of one
\* row.
Builders ==
    {SettingsBuilder(3, 3, None, None, <<>>),
     SettingsBuilder(2, 2, None, None, <<>>),
     SettingsBuilder(2, 3, Some(<<0, 0>>), Some(<<2, 1>>),
                     <<<<1, 1>>, <<1, 0>>, <<1, 1>>>>),
     SettingsBuilder(3, 3, Some(<<0, 0>>), None,
                     adjacenct_positions([rows |-> 3, cols |-> 3], <<0, 0>>)),
     SettingsBuilder(1, 2, None, None, <<>>)}

MaroonedInit ==
    /\ \E builder \in Builders :
          /\ build_game(builder).tag = "Ok"
          /\ game = build_game(builder).value
    /\ other = game
    /\ result = "Built"

\* The positions given to make_move: those of the board, one past its last
\* column and one past its last row.
InputPositions ==
    toSet(all_positions(game.settings.dimensions))
        \cup {<<game.settings.dimensions.cols, 0>>,
              <<0, game.settings.dimensions.rows>>}

MaroonedFreePlay == Len(game.history) < MaxMaroonedMoves

\* let result = game.make_move(action), for any player and positions.
MakeMove ==
    \E player \in marooned_Player, to \in InputPositions, remove \in InputPositions :
        LET r == make_move(game, marooned_Action(player, to, remove))
        IN  /\ MaroonedFreePlay
            /\ game' = r.game
            /\ result' = result_tag(r.result)
            /\ other' = game

\* The step of the library's test of a full game, once the free moves are
\* made: game.valid_actions().next() is applied.
MakeFirstValidMove ==
    /\ ~MaroonedFreePlay
    /\ marooned_valid_actions(game) # <<>>
    /\ LET r == make_move(game, marooned_valid_actions(game)[1])
       IN  /\ game' = r.game
           /\ result' = result_tag(r.result)
           /\ other' = game

\* let last = game.undo()
Undo ==
    LET r == undo(game)
    IN  /\ game' = r.game
        /\ result' = r.result[1]
        /\ other' = game

MaroonedNext == MakeMove \/ MakeFirstValidMove \/ Undo

MaroonedSpec == MaroonedInit /\ [][MaroonedNext]_vars

\* --------------------------------------------------- marooned, claims

\* Every Action that make_move is given: either player, and positions on
\* and off the board.
AllActions ==
    {marooned_Action(player, to, remove) :
        player \in marooned_Player, to \in InputPositions, remove \in InputPositions}

on_board(g, pos) ==
    /\ pos[1] \in 0..(g.settings.dimensions.cols - 1)
    /\ pos[2] \in 0..(g.settings.dimensions.rows - 1)

\* Neighbours along a row, a column or a diagonal.
adjacent(a, b) ==
    /\ a # b
    /\ a[1] - b[1] \in -1..1
    /\ a[2] - b[2] \in -1..1

removed_set(g) == toSet(removed_positions(g))

\* The positions the player may move to, said without the library's
\* iterators.
movement_targets(g, player) ==
    {pos \in InputPositions :
        /\ on_board(g, pos)
        /\ adjacent(pos, player_position(g, player))
        /\ pos \notin removed_set(g)
        /\ pos # player_position(g, opponent(player))}

\* C17: legality agreement.  In every state reachable from a built game,
\* make_move accepts an Action exactly when valid_actions() yields it, and
\* that is exactly when its player is whose_turn(), its 'to' is on the
\* board, adjacent to the player's position, not removed and not the
\* opponent's position, its 'remove' is on the board, not yet removed and
\* not the opponent's position, and to # remove.
C17_LegalityAgreement ==
    LET yielded == toSet(marooned_valid_actions(game))
        targets == [player \in marooned_Player |-> movement_targets(game, player)]
        removed == removed_set(game)
    IN  \A a \in AllActions :
            LET accepted == make_move(game, a).result.tag = "Ok"
                legal    == /\ a.player = marooned_whose_turn(game)
                            /\ a.to \in targets[a.player]
                            /\ on_board(game, a.remove)
                            /\ a.remove \notin removed
                            /\ a.remove # player_position(game, opponent(a.player))
                            /\ a.to # a.remove
            IN  /\ accepted <=> a \in yielded
                /\ a \in yielded <=> legal

\* A diagonal move that removes the position the player has left was
\* accepted.
C17_Witness ==
    /\ result = "Ok"
    /\ game.history # <<>>
    /\ LET a == last(game.history)
       IN  /\ a.remove = player_position(other, a.player)
           /\ a.to[1] # a.remove[1]
           /\ a.to[2] # a.remove[2]

\* C18: a win is final.  In every reachable state whose status() is Win,
\* make_move returns an error for every Action (either player, any 'to',
\* any 'remove') and the history does not grow.
C18_WinIsFinal ==
    marooned_status(game)[1] = "Win" =>
        \A a \in AllActions :
            /\ make_move(game, a).result.tag = "Err"
            /\ make_move(game, a).game.history = game.history

\* A move of P1, who is to move and is surrounded by removed positions,
\* was refused in a game that P2 has won.
C18_Witness ==
    /\ marooned_status(game) = <<"Win", P2>>
    /\ result = "InvalidMoveToTarget"
    /\ removed_positions(game) # <<>>
    /\ other = game

\* C19: status.  status() is Win{player: opponent of whose_turn()} exactly
\* when the player whose turn it is has no allowed movement target and
\* InProgress exactly when that player has one; and status() is InProgress
\* exactly when valid_actions() yields an action.
C19_Status ==
    LET targets == movement_targets(game, marooned_whose_turn(game))
    IN  /\ marooned_status(game) = <<"Win", opponent(marooned_whose_turn(game))>>
              <=> targets = {}
        /\ marooned_status(game) = <<"InProgress">> <=> targets # {}
        /\ marooned_status(game) = <<"InProgress">>
              <=> marooned_valid_actions(game) # <<>>

\* An accepted move has left the other player, who stands next to the
\* mover, without a movement target.
C19_Witness ==
    /\ result = "Ok"
    /\ game.history # <<>>
    /\ marooned_status(game) = <<"Win", last(game.history).player>>
    /\ adjacent(player_position(game, P1), player_position(game, P2))

\* C20: undo round trip.  undo() on a game with an empty history returns
\* None and leaves the game unchanged; for every action a that make_move
\* accepts, undo() right after returns Some(a) and leaves a game equal to
\* the one before: same settings, history, whose_turn, player positions
\* and removed positions.
C20_UndoRoundTrip ==
    /\ game.history = <<>> =>
          /\ undo(game).result = None
          /\ undo(game).game = game
    /\ \A a \in AllActions :
          LET made   == make_move(game, a)
              undone == undo(made.game)
          IN  made.result.tag = "Ok" =>
                /\ made.game # game
                /\ undone.result = Some(a)
                /\ undone.game = game
                /\ undone.game.settings = game.settings
                /\ undone.game.history = game.history
                /\ marooned_whose_turn(undone.game) = marooned_whose_turn(game)
                /\ \A player \in marooned_Player :
                      player_position(undone.game, player)
                          = player_position(game, player)
                /\ removed_positions(undone.game) = removed_positions(game)

\* undo() has just given back the second action of a game: the game is the
\* one that action was made in.
C20_Witness ==
    /\ result = "Some"
    /\ Len(game.history) = 1
    /\ Len(other.history) = 2
    /\ make_move(game, last(other.history)).result.tag = "Ok"
    /\ make_move(game, last(other.history)).game = other

\* ------------------------------------------------- marooned, errors
\* The Actions of the player whose turn it is not.
WrongPlayerActions ==
    {a \in AllActions : a.player # marooned_whose_turn(game)}

\* C22 as stated: in every reachable state, for every Action whose player
\* is not whose_turn(), whatever its 'to' and 'remove' positions, make_move
\* returns Err(OtherPlayerTurn{attempted: that player}) and the game is
\* unchanged.
C22_WrongPlayerAsStated ==
    \A a \in WrongPlayerActions :
        make_move(game, a) =
            [result |-> Err(<<"OtherPlayerTurn", a.player>>), game |-> game]

\* C22, amended: in every reachable state, for every Action whose player is
\* not whose_turn() and whose 'to' differs from its 'remove', make_move
\* returns Err(OtherPlayerTurn{attempted: that player}) and the game is
\* unchanged; when 'to' equals 'remove' it returns
\* Err(CantRemoveTheSamePositionAsMoveTo{target: to}) instead, the game
\* unchanged as well.
C22_WrongPlayer ==
    \A a \in WrongPlayerActions :
        make_move(game, a) =
            [result |-> IF a.to = a.remove
                        THEN Err(<<"CantRemoveTheSamePositionAsMoveTo", a.to>>)
                        ELSE Err(<<"OtherPlayerTurn", a.player>>),
             game |-> game]

\* In a game that can go on, an Action of P2 was refused as out of turn and
\* left the game as it was, although its 'to' was a position P2 could have
\* moved to had it been P2's turn.
C22_Witness ==
    /\ result = "OtherPlayerTurn"
    /\ other = game
    /\ marooned_status(game) = <<"InProgress">>
    /\ \E a \in WrongPlayerActions :
            /\ a.to \in movement_targets(game, a.player)
            /\ a.to # a.remove

\* ------------------------------------------------- marooned, settings
\* The chain SettingsBuilder::new().rows(..).cols(..).build_game() and
\* Default::default(): other is the builder, game the Option of what was
\* obtained from it, result the last call of the chain ("new", "rows",
\* "cols") or the variant of what it ended with.

\* The values of a u8.
U8 == 0..255

\* Dimensions::default
Dimensions_default == [rows |-> 8, cols |-> 6]

\* SettingsBuilder::new (Default for SettingsBuilder)
SettingsBuilder_new ==
    SettingsBuilder(Dimensions_default.rows, Dimensions_default.cols,
                    None, None, <<>>)

\* SettingsBuilder::rows, SettingsBuilder::cols
builder_rows(builder, n) == [builder EXCEPT !.rows = n]

builder_cols(builder, n) == [builder EXCEPT !.cols = n]

\* Default for Settings
Settings_default ==
    [dimensions |-> Dimensions_default,
     starting_player_positions |->
        [player \in marooned_Player |->
            IF player = P1 THEN <<2, 0>> ELSE <<3, 7>>],
     starting_removed_positions |-> <<>>]

\* Default for GameState (derived)
GameState_default == [settings |-> Settings_default, history |-> <<>>]

SettingsInit ==
    /\ other = SettingsBuilder_new
    /\ game = None
    /\ result = "new"

SetRows ==
    \E n \in U8 :
        /\ result = "new"
        /\ other' = builder_rows(other, n)
        /\ result' = "rows"
        /\ UNCHANGED game

SetCols ==
    \E n \in U8 :
        /\ result = "rows"
        /\ other' = builder_cols(other, n)
        /\ result' = "cols"
        /\ UNCHANGED game

BuildGame ==
    /\ result \in {"new", "rows", "cols"}
    /\ game' = Some(build_game(other))
    /\ result' = result_tag(build_game(other))
    /\ UNCHANGED other

\* let game: GameState = Default::default();
DefaultGame ==
    /\ result = "new"
    /\ game' = Some(Ok(GameState_default))
    /\ result' = "Default"
    /\ UNCHANGED other

SettingsNext == SetRows \/ SetCols \/ BuildGame \/ DefaultGame

SettingsSpec == SettingsInit /\ [][SettingsNext]_vars

\* C21 as stated: for all rows and cols in 0 .. 255,
\* SettingsBuilder::new().rows(rows).cols(cols).build() returns
\* Err(InvalidDimensions) when rows = 0, cols = 0 or rows = cols = 1 and Ok
\* for every other pair.
C21_ValidationByDimensionsAsStated ==
    (game # None /\ result # "Default") =>
        IF \/ other.rows = 0
           \/ other.cols = 0
           \/ other.rows = 1 /\ other.cols = 1
        THEN game = Some(Err(<<"InvalidDimensions">>))
        ELSE game[2].tag = "Ok"

\* C23 as stated: the GameState obtained from Default::default() has the
\* same settings (dimensions, P1 and P2 starting positions, removed
\* positions) as the one obtained from SettingsBuilder::new().build_game(),
\* so both start with the same player positions and the same
\* valid_actions().
C23_DefaultEqualsBuilderDefaultAsStated ==
    result = "Default" =>
        LET default == game[2].value
            built   == build_game(SettingsBuilder_new).value
        IN  /\ default.settings = built.settings
            /\ \A player \in marooned_Player :
                    player_position(default, player) = player_position(built, player)
            /\ marooned_valid_actions(default) = marooned_valid_actions(built)

\* ===================================================== tic-tac-toe
\* games/tic_tac_toe.rs.  A Position is <<col, row>>; a GameState is its
\* history, the sequence of the positions claimed, X claiming first.

MaxTicTacToeMoves == 3

X == "X"

O == "O"

ttt_Player == {X, O}

\* Player::opponent
ttt_opponent(player) == IF player = X THEN O ELSE X

Row0 == 0

Row1 == 1

Row2 == 2

Row_ALL == <<Row0, Row1, Row2>>

Col0 == 0

Col1 == 1

Col2 == 2

Col_ALL == <<Col0, Col1, Col2>>

\* All 8 possible ways to win, in the order of the source.
POSSIBLE_WINS ==
    << <<<<Col0, Row0>>, <<Col0, Row1>>, <<Col0, Row2>>>>,
       <<<<Col1, Row0>>, <<Col1, Row1>>, <<Col1, Row2>>>>,
       <<<<Col2, Row0>>, <<Col2, Row1>>, <<Col2, Row2>>>>,
       <<<<Col0, Row0>>, <<Col1, Row0>>, <<Col2, Row0>>>>,
       <<<<Col0, Row1>>, <<Col1, Row1>>, <<Col2, Row1>>>>,
       <<<<Col0, Row2>>, <<Col1, Row2>>, <<Col2, Row2>>>>,
       <<<<Col0, Row0>>, <<Col1, Row1>>, <<Col2, Row2>>>>,
       <<<<Col2, Row0>>, <<Col1, Row1>>, <<Col0, Row2>>>> >>

ttt_Position == toSet(iproduct(Col_ALL, Row_ALL))

\* type Action = (Player, Position)
ttt_Action == ttt_Player \X ttt_Position

\* GameState::new
ttt_new == [history |-> <<>>]

\* GameState::history: the positions zipped with X, O, X, O, ...
ttt_history(g) ==
    [i \in 1..Len(g.history) |->
        <<IF i % 2 = 1 THEN X ELSE O, g.history[i]>>]

\* GameState::board: every action of the history written in turn into a
\* board of None, so that a later action overwrites an earlier one.
board(g) ==
    [col \in toSet(Col_ALL) |->
        [row \in toSet(Row_ALL) |->
            LET claims == {i \in 1..Len(g.history) : g.history[i] = <<col, row>>}
            IN  IF claims = {}
                THEN None
                ELSE Some(ttt_history(g)[CHOOSE i \in claims :
                                            \A j \in claims : j <= i][1])]]

\* A board that counts as full with one position left.
is_full_after_eight(g) == Len(g.history) = 8

is_full(g) == Len(g.history) = 9

is_position_taken(g, position) ==
    \E i \in 1..Len(g.history) : g.history[i] = position

\* Every position of the board, claimed or not.
available_with_taken(g) == iproduct(Col_ALL, Row_ALL)

\* GameState::available, in the order of iproduct!(&Col::ALL, &Row::ALL)
available(g) ==
    SelectSeq(iproduct(Col_ALL, Row_ALL),
              LAMBDA position : ~is_position_taken(g, position))

\* GameState::whose_turn
ttt_whose_turn(g) == IF Len(g.history) % 2 = 0 THEN X ELSE O

\* GameState::valid_actions
ttt_valid_actions(g) ==
    [i \in 1..Len(available(g)) |-> <<ttt_whose_turn(g), available(g)[i]>>]

\* A status that takes the last line of POSSIBLE_WINS that is won.
ttt_status_last_line(g) ==
    LET won(positions) ==
            LET a == board(g)[positions[1][1]][positions[1][2]]
                b == board(g)[positions[2][1]][positions[2][2]]
                c == board(g)[positions[3][1]][positions[3][2]]
            IN  a = b /\ b = c /\ a # None
        wins == SelectSeq(POSSIBLE_WINS, won)
    IN  IF wins # <<>>
        THEN <<"Win", board(g)[wins[Len(wins)][1][1]][wins[Len(wins)][1][2]][2],
               wins[Len(wins)]>>
        ELSE IF is_full(g) THEN <<"Draw">> ELSE <<"InProgress">>

\* GameState::status: the first line of POSSIBLE_WINS whose three cells hold
\* the same Some(player) gives Win {player, positions}; without one, Draw on
\* a full board and InProgress otherwise.
ttt_status(g) ==
    LET won(positions) ==
            LET a == board(g)[positions[1][1]][positions[1][2]]
                b == board(g)[positions[2][1]][positions[2][2]]
                c == board(g)[positions[3][1]][positions[3][2]]
            IN  a = b /\ b = c /\ a # None
        wins == SelectSeq(POSSIBLE_WINS, won)
    IN  IF wins # <<>>
        THEN <<"Win", board(g)[wins[1][1][1]][wins[1][1][2]][2], wins[1]>>
        ELSE IF is_full(g) THEN <<"Draw">> ELSE <<"InProgress">>

\* An undo that names the player whose turn it is after the pop.
ttt_undo_names_next_player(g) ==
    IF g.history = <<>>
    THEN [result |-> None, game |-> g]
    ELSE [result |-> Some(<<ttt_whose_turn(g), g.history[Len(g.history)]>>),
          game |-> [history |-> SubSeq(g.history, 1, Len(g.history) - 1)]]

\* GameState::undo(&mut self): the Option it returns and the game it
\* leaves.  current_player is read before the pop.
ttt_undo(g) ==
    LET current_player == ttt_opponent(ttt_whose_turn(g))
    IN  IF g.history = <<>>
        THEN [result |-> None, game |-> g]
        ELSE [result |-> Some(<<current_player, g.history[Len(g.history)]>>),
              game |-> [history |-> SubSeq(g.history, 1, Len(g.history) - 1)]]

\* A make_move that checks the turn before the position.
ttt_make_move_turn_check_first(g, action) ==
    IF action[1] # ttt_whose_turn(g)
    THEN Err(<<"OtherPlayerTurn", action[1]>>)
    ELSE IF is_position_taken(g, action[2])
    THEN Err(<<"SpaceIsTaken", action[2]>>)
    ELSE Ok([g EXCEPT !.history = Append(@, action[2])])

\* GameState::make_move(&self, (player, position)): the Result it returns,
\* the new GameState on Ok.
ttt_make_move(g, action) ==
    IF is_position_taken(g, action[2])
    THEN Err(<<"SpaceIsTaken", action[2]>>)
    ELSE IF action[1] = ttt_whose_turn(g)
    THEN Ok([g EXCEPT !.history = Append(@, action[2])])
    ELSE Err(<<"OtherPlayerTurn", action[1]>>)

\* ------------------------------------------------- tic-tac-toe, state
\* game is the GameState in hand, other the GameState the last call was
\* made on, result the variant that call returned.  Any caller makes the
\* first MaxTicTacToeMoves moves; after them the game goes on with the first
\* of valid_actions() until the board is full.

TicTacToeInit ==
    /\ game = ttt_new
    /\ other = game
    /\ result = "New"

TicTacToeFreePlay == Len(game.history) < MaxTicTacToeMoves

TicTacToeMakeMove ==
    \E action \in ttt_Action :
        LET r == ttt_make_move(game, action)
        IN  /\ TicTacToeFreePlay
            /\ game' = IF r.tag = "Ok" THEN r.value ELSE game
            /\ result' = result_tag(r)
            /\ other' = game

TicTacToeMakeFirstValidMove ==
    /\ ~TicTacToeFreePlay
    /\ ttt_valid_actions(game) # <<>>
    /\ LET r == ttt_make_move(game, ttt_valid_actions(game)[1])
       IN  /\ game' = IF r.tag = "Ok" THEN r.value ELSE game
           /\ result' = result_tag(r)
           /\ other' = game

TicTacToeUndo ==
    LET r == ttt_undo(game)
    IN  /\ game' = r.game
        /\ result' = r.result[1]
        /\ other' = game

TicTacToeNext ==
    TicTacToeMakeMove \/ TicTacToeMakeFirstValidMove \/ TicTacToeUndo

TicTacToeSpec == TicTacToeInit /\ [][TicTacToeNext]_vars

\* ------------------------------------------------- tic-tac-toe, claims
\* The player who claimed the position, "nobody" when it is free: X claims
\* the 1st, 3rd, ... position of the history and O the others.
owner(g, position) ==
    IF \E i \in 1..Len(g.history) : g.history[i] = position
    THEN LET i == CHOOSE j \in 1..Len(g.history) : g.history[j] = position
         IN  IF i % 2 = 1 THEN X ELSE O
    ELSE "nobody"

claimed(g) == toSet(g.history)

\* The indices of the lines of POSSIBLE_WINS held by one player.
won_lines(g) ==
    {i \in 1..Len(POSSIBLE_WINS) :
        /\ owner(g, POSSIBLE_WINS[i][1]) # "nobody"
        /\ owner(g, POSSIBLE_WINS[i][2]) = owner(g, POSSIBLE_WINS[i][1])
        /\ owner(g, POSSIBLE_WINS[i][3]) = owner(g, POSSIBLE_WINS[i][1])}

C26_UndoRoundTrip ==
    /\ ttt_undo(ttt_new) = [result |-> None, game |-> ttt_new]
    /\ \A action \in ttt_Action :
            LET r == ttt_make_move(game, action)
            IN  r.tag = "Ok" =>
                    /\ ttt_undo(r.value).result = Some(action)
                    /\ ttt_undo(r.value).game = game
                    /\ ttt_whose_turn(ttt_undo(r.value).game) = action[1]
    /\ result = "Some" =>
            /\ other.history = Append(game.history, last(other.history))
            /\ ttt_whose_turn(game) = ttt_undo(other).result[2][1]
    /\ result = "None" => game = ttt_new /\ other = ttt_new

\* A move of O has been undone, and it is O's turn again.
C26_Witness ==
    /\ result = "Some"
    /\ Len(other.history) = Len(game.history) + 1
    /\ ttt_whose_turn(game) = O

C28_WrongPlayerAsStated ==
    \A action \in ttt_Action :
        action[1] # ttt_whose_turn(game) =>
            ttt_make_move(game, action) = Err(<<"OtherPlayerTurn", action[1]>>)

\* C28, amended: in every reachable state, for every position that has not
\* been claimed, make_move((player, position)) with player different from
\* whose_turn() returns Err(OtherPlayerTurn{attempted: player}); for a
\* claimed position it returns Err(SpaceIsTaken{attempted: position}).
C28_WrongPlayer ==
    \A action \in ttt_Action :
        action[1] # ttt_whose_turn(game) =>
            ttt_make_move(game, action) =
                IF action[2] \in claimed(game)
                THEN Err(<<"SpaceIsTaken", action[2]>>)
                ELSE Err(<<"OtherPlayerTurn", action[1]>>)

\* With positions claimed and others free, a claim was refused as out of
\* turn and the game is as it was.
C28_Witness ==
    /\ result = "OtherPlayerTurn"
    /\ game = other
    /\ game.history # <<>>
    /\ available(game) # <<>>

\* ===================================================== ranks
\* common/deck/card/rank.rs and common/deck/rank.rs.  A Rank is its
\* discriminant in card/rank.rs, Ace = 1 to King = 13 (Eight is defined with
\* the deck); the Rank of deck/rank.rs has the same variants in the same
\* order.

Ace == 1

Two == 2

Three == 3

Four == 4

Five == 5

Six == 6

Seven == 7

Nine == 9

Ten == 10

Jack == 11

Queen == 12

King == 13

Rank_ALL ==
    <<Ace, Two, Three, Four, Five, Six, Seven, Eight, Nine, Ten, Jack, Queen,
      King>>

\* card/rank.rs, Rank::next_with_wrapping: the match, arm by arm.
next_with_wrapping(rank) ==
    CASE rank = Ace   -> Two
      [] rank = Two   -> Three
      [] rank = Three -> Four
      [] rank = Four  -> Five
      [] rank = Five  -> Six
      [] rank = Six   -> Seven
      [] rank = Seven -> Eight
      [] rank = Eight -> Nine
      [] rank = Nine  -> Ten
      [] rank = Ten   -> Jack
      [] rank = Jack  -> Queen
      [] rank = Queen -> King
      [] rank = King  -> Ace

\* card/rank.rs, Rank::previous_with_wrapping
previous_with_wrapping(rank) ==
    CASE rank = Ace   -> King
      [] rank = King  -> Queen
      [] rank = Queen -> Jack
      [] rank = Jack  -> Ten
      [] rank = Ten   -> Nine
      [] rank = Nine  -> Eight
      [] rank = Eight -> Seven
      [] rank = Seven -> Six
      [] rank = Six   -> Five
      [] rank = Five  -> Four
      [] rank = Four  -> Three
      [] rank = Three -> Two
      [] rank = Two   -> Ace

\* An ace-high next that stops at King.
next_with_ace_high_bounded_at_king(rank) ==
    IF rank = King THEN None ELSE Some(next_with_wrapping(rank))

\* card/rank.rs, Rank::next_with_ace_high
next_with_ace_high(rank) ==
    IF rank = Ace THEN None ELSE Some(next_with_wrapping(rank))

\* card/rank.rs, Rank::next_with_ace_low
next_with_ace_low(rank) ==
    IF rank = King THEN None ELSE Some(next_with_wrapping(rank))

\* card/rank.rs, Rank::previous_with_ace_high
previous_with_ace_high(rank) ==
    IF rank = Two THEN None ELSE Some(previous_with_wrapping(rank))

\* card/rank.rs, Rank::previous_with_ace_low
previous_with_ace_low(rank) ==
    IF rank = Ace THEN None ELSE Some(previous_with_wrapping(rank))

\* deck/rank.rs, enum Ordering
AceHigh == "AceHigh"

AceLow == "AceLow"

Ordering == {AceHigh, AceLow}

\* deck/rank.rs, Rank::next_with_wrapping
deck_next_with_wrapping(rank) ==
    CASE rank = Ace   -> Two
      [] rank = Two   -> Three
      [] rank = Three -> Four
      [] rank = Four  -> Five
      [] rank = Five  -> Six
      [] rank = Six   -> Seven
      [] rank = Seven -> Eight
      [] rank = Eight -> Nine
      [] rank = Nine  -> Ten
      [] rank = Ten   -> Jack
      [] rank = Jack  -> Queen
      [] rank = Queen -> King
      [] rank = King  -> Ace

\* deck/rank.rs, Rank::previous_with_wrapping
deck_previous_with_wrapping(rank) ==
    CASE rank = Ace   -> King
      [] rank = King  -> Queen
      [] rank = Queen -> Jack
      [] rank = Jack  -> Ten
      [] rank = Ten   -> Nine
      [] rank = Nine  -> Eight
      [] rank = Eight -> Seven
      [] rank = Seven -> Six
      [] rank = Six   -> Five
      [] rank = Five  -> Four
      [] rank = Four  -> Three
      [] rank = Three -> Two
      [] rank = Two   -> Ace

\* deck/rank.rs, Rank::next(&self, order)
deck_next(rank, order) ==
    CASE order = AceHigh /\ rank = Ace  -> None
      [] order = AceLow  /\ rank = King -> None
      [] OTHER -> Some(deck_next_with_wrapping(rank))

\* A previous whose ace-high order ends at Ace.
deck_previous_bounded_at_ace(rank, order) ==
    CASE rank = Ace -> None
      [] OTHER -> Some(deck_previous_with_wrapping(rank))

\* deck/rank.rs, Rank::previous(&self, order)
deck_previous(rank, order) ==
    CASE order = AceHigh /\ rank = Two -> None
      [] order = AceLow  /\ rank = Ace -> None
      [] OTHER -> Some(deck_previous_with_wrapping(rank))

\* ------------------------------------------------- ranks, state
\* game is the Rank in hand, other the Rank the last call was made on and
\* result that call with what it returned (a Rank as Some of it); a call
\* that returns a Rank, or Some of one, leaves that Rank in hand.

returned(call, value) == [call |-> call, value |-> value]

returned_for(call, order, value) ==
    [call |-> call, order |-> order, value |-> value]

RankInit ==
    /\ game = Ace
    /\ other = game
    /\ result = returned("ALL", Some(game))

PickRank ==
    \E rank \in toSet(Rank_ALL) :
        /\ result' = returned("ALL", Some(rank))
        /\ other' = game
        /\ game' = rank

NextWithAceHigh ==
    /\ result' = returned("next_with_ace_high", next_with_ace_high(game))
    /\ other' = game
    /\ game' = unwrap_or(next_with_ace_high(game), game)

NextWithAceLow ==
    /\ result' = returned("next_with_ace_low", next_with_ace_low(game))
    /\ other' = game
    /\ game' = unwrap_or(next_with_ace_low(game), game)

PreviousWithAceHigh ==
    /\ result' = returned("previous_with_ace_high", previous_with_ace_high(game))
    /\ other' = game
    /\ game' = unwrap_or(previous_with_ace_high(game), game)

PreviousWithAceLow ==
    /\ result' = returned("previous_with_ace_low", previous_with_ace_low(game))
    /\ other' = game
    /\ game' = unwrap_or(previous_with_ace_low(game), game)

NextWithWrapping ==
    /\ result' = returned("next_with_wrapping", Some(next_with_wrapping(game)))
    /\ other' = game
    /\ game' = next_with_wrapping(game)

PreviousWithWrapping ==
    /\ result' = returned("previous_with_wrapping",
                          Some(previous_with_wrapping(game)))
    /\ other' = game
    /\ game' = previous_with_wrapping(game)

DeckNext ==
    \E order \in Ordering :
        /\ result' = returned_for("next", order, deck_next(game, order))
        /\ other' = game
        /\ game' = unwrap_or(deck_next(game, order), game)

DeckPrevious ==
    \E order \in Ordering :
        /\ result' = returned_for("previous", order, deck_previous(game, order))
        /\ other' = game
        /\ game' = unwrap_or(deck_previous(game, order), game)

RankNext ==
    \/ PickRank
    \/ NextWithAceHigh
    \/ NextWithAceLow
    \/ PreviousWithAceHigh
    \/ PreviousWithAceLow
    \/ NextWithWrapping
    \/ PreviousWithWrapping
    \/ DeckNext
    \/ DeckPrevious

RankSpec == RankInit /\ [][RankNext]_vars

\* ------------------------------------------------- ranks, claims
\* C29 as stated: under the ace-high convention the bounded next of King is
\* absent and the bounded previous of Ace is absent, while for every other
\* rank bounded next and previous equal the wrap-around next and previous.
C29_AceHighAsStated ==
    /\ next_with_ace_high(game) =
            IF game = King THEN None ELSE Some(next_with_wrapping(game))
    /\ previous_with_ace_high(game) =
            IF game = Ace THEN None ELSE Some(previous_with_wrapping(game))
    /\ deck_next(game, AceHigh) =
            IF game = King THEN None ELSE Some(deck_next_with_wrapping(game))
    /\ deck_previous(game, AceHigh) =
            IF game = Ace THEN None ELSE Some(deck_previous_with_wrapping(game))

\* C29, amended: under the ace-high convention the bounded next of Ace is
\* absent and the bounded previous of Two is absent, while for every other
\* rank bounded next and previous equal the wrap-around next and previous,
\* so that the bounded next of King is Ace and the bounded previous of Ace
\* is King.
C29_AceHigh ==
    /\ next_with_ace_high(game) = None <=> game = Ace
    /\ previous_with_ace_high(game) = None <=> game = Two
    /\ game # Ace => next_with_ace_high(game) = Some(next_with_wrapping(game))
    /\ game # Two =>
            previous_with_ace_high(game) = Some(previous_with_wrapping(game))
    /\ game = King => next_with_ace_high(game) = Some(Ace)
    /\ game = Ace => previous_with_ace_high(game) = Some(King)
    /\ result.call = "next_with_ace_high" =>
            result.value = IF other = Ace THEN None
                           ELSE Some(next_with_wrapping(other))
    /\ result.call = "previous_with_ace_high" =>
            result.value = IF other = Two THEN None
                           ELSE Some(previous_with_wrapping(other))

\* The ace-high next of King was asked for and Ace is in hand.
C29_Witness ==
    /\ result = returned("next_with_ace_high", Some(Ace))
    /\ other = King
    /\ game = Ace

\* One past the rank, and one before it, counting Ace as 1 and King as 13
\* and going round.
successor(rank) == (rank % 13) + 1

predecessor(rank) == ((rank + 11) % 13) + 1

\* C30: bounded adjacency as the tests state it, for all 13 ranks.  Ace-high
\* next is None only for Ace (and Some(Ace) for King), ace-high previous is
\* None only for Two (and Some(King) for Ace), ace-low next is None only for
\* King, ace-low previous is None only for Ace; in every other case the
\* result is Some of the wrap-around neighbour, wrap-around next and
\* previous are inverse of each other, and the two implementations of Rank
\* agree.
C30_AdjacencyAsTested ==
    /\ next_with_ace_high(game) =
            IF game = Ace THEN None ELSE Some(successor(game))
    /\ previous_with_ace_high(game) =
            IF game = Two THEN None ELSE Some(predecessor(game))
    /\ next_with_ace_low(game) =
            IF game = King THEN None ELSE Some(successor(game))
    /\ previous_with_ace_low(game) =
            IF game = Ace THEN None ELSE Some(predecessor(game))
    /\ next_with_wrapping(game) = successor(game)
    /\ previous_with_wrapping(game) = predecessor(game)
    /\ previous_with_wrapping(next_with_wrapping(game)) = game
    /\ next_with_wrapping(previous_with_wrapping(game)) = game
    /\ deck_previous_with_wrapping(deck_next_with_wrapping(game)) = game
    /\ deck_next_with_wrapping(deck_previous_with_wrapping(game)) = game
    /\ deck_next(game, AceHigh) = next_with_ace_high(game)
    /\ deck_next(game, AceLow) = next_with_ace_low(game)
    /\ deck_previous(game, AceHigh) = previous_with_ace_high(game)
    /\ deck_previous(game, AceLow) = previous_with_ace_low(game)

\* previous(AceHigh) was asked of Ace and gave King, which is in hand.
C30_Witness ==
    /\ result = returned_for("previous", AceHigh, Some(King))
    /\ other = Ace
    /\ game = King

\* ===================================================== crazy eights, again
\* C31: the effect of an accepted draw without reshuffle.  When the Draw of
\* the player whose turn it is is accepted in a state with a non-empty draw
\* pile, the card at the back of the draw pile is moved to that player's
\* hand, the draw pile loses exactly that card and keeps the order of the
\* rest, and the discard pile, top_card, current_suit, the generator state
\* and every other player's hand are as they were.
C31_DrawWithoutReshuffle ==
    LET p == whose_turn(game)
        r == apply_action(game, p, Draw)
    IN  (r.tag = "Ok" /\ game.draw_pile # <<>>) =>
            /\ r.value.hands[p] = Append(game.hands[p], last(game.draw_pile))
            /\ Append(r.value.draw_pile, last(game.draw_pile)) = game.draw_pile
            /\ r.value.discarded = game.discarded
            /\ r.value.top_card = game.top_card
            /\ r.value.current_suit = game.current_suit
            /\ r.value.rng = game.rng
            /\ \A q \in Player \ {p} : r.value.hands[q] = game.hands[q]

\* The player whose turn it is has drawn before, the draw pile holds two or
\* more cards and none of the player's cards can be played: the next Draw
\* is taken from the back of a pile with an order to keep.
C31_Witness ==
    /\ result = "Ok"
    /\ moves(game) # <<>>
    /\ last(moves(game)) = Draw
    /\ Len(game.draw_pile) >= 2
    /\ playable_cards(game, whose_turn(game)) = <<>>

\* C32: error precedence for the player p whose turn it is.  Play of an
\* eight returns CantPlayEightAsRegularCard and PlayEight of a non-eight
\* returns CantPlayNonEightAsEight, whether or not p holds the card;
\* otherwise a card p does not hold returns PlayerDoesNotHaveCard, whether
\* or not it would match; and only a held non-eight that matches neither
\* top_card's rank nor current_suit returns CardCantBePlayed, carrying the
\* card, top_card and current_suit.
C32_ErrorPrecedence ==
    LET p    == whose_turn(game)
        hand == toSet(game.hands[p])
    IN  \A c \in Cards :
            /\ c[1] = Eight =>
                    apply_action(game, p, Play(c)) =
                        Err(<<"CantPlayEightAsRegularCard", c>>)
            /\ c[1] # Eight =>
                    \A s \in Suits :
                        apply_action(game, p, PlayEight(c, s)) =
                            Err(<<"CantPlayNonEightAsEight", c>>)
            /\ (c[1] # Eight /\ c \notin hand) =>
                    apply_action(game, p, Play(c)) =
                        Err(<<"PlayerDoesNotHaveCard", p, c>>)
            /\ (c[1] = Eight /\ c \notin hand) =>
                    \A s \in Suits :
                        apply_action(game, p, PlayEight(c, s)) =
                            Err(<<"PlayerDoesNotHaveCard", p, c>>)
            /\ \A a \in {Play(c)} \cup {PlayEight(c, s) : s \in Suits} :
                    result_tag(apply_action(game, p, a)) = "CardCantBePlayed" <=>
                        /\ a = Play(c)
                        /\ c \in hand
                        /\ c[1] # Eight
                        /\ c[1] # game.top_card[1]
                        /\ c[2] # game.current_suit
            /\ result_tag(apply_action(game, p, Play(c))) = "CardCantBePlayed" =>
                    apply_action(game, p, Play(c)) =
                        Err(<<"CardCantBePlayed", c, game.top_card,
                              game.current_suit>>)

\* A card that the player whose turn it is does not hold was refused for
\* that reason, while a card outside the hand matches neither the rank of
\* top_card nor current_suit, and an eight is outside the hand too.
C32_Witness ==
    /\ result = "PlayerDoesNotHaveCard"
    /\ \E c \in Cards \ toSet(game.hands[whose_turn(game)]) :
            /\ c[1] # Eight
            /\ c[1] # game.top_card[1]
            /\ c[2] # game.current_suit
    /\ \E c \in Cards \ toSet(game.hands[whose_turn(game)]) : c[1] = Eight

\* The accepted actions that put a card down, in order.
cards_played(g) == SelectSeq(moves(g), LAMBDA a : a # Draw)

\* current_suit is top_card's suit unless top_card is an eight that was put
\* down with PlayEight naming current_suit.
suit_follows_top_card ==
    /\ game.top_card[1] # Eight => game.current_suit = game.top_card[2]
    /\ game.current_suit # game.top_card[2] =>
            /\ game.top_card[1] = Eight
            /\ cards_played(game) # <<>>
            /\ last(cards_played(game)) =
                    PlayEight(game.top_card, game.current_suit)

\* An accepted Draw.
draw_accepted ==
    /\ result' = "Ok"
    /\ moves(game') = Append(moves(game), Draw)

\* C33: the current-suit invariant.  In every reachable state, if top_card
\* is not an eight then current_suit is top_card's suit; current_suit
\* differs from top_card's suit only while top_card is an eight played with
\* PlayEight; and a Draw never changes current_suit or top_card.
C33_CurrentSuit ==
    /\ []suit_follows_top_card
    /\ [][draw_accepted =>
            /\ game'.current_suit = game.current_suit
            /\ game'.top_card = game.top_card]_vars

\* A card was drawn, after a reshuffle, while an eight lies on top under a
\* suit that is not its own.
C33_Witness ==
    /\ result = "Ok"
    /\ moves(game) # <<>>
    /\ last(moves(game)) = Draw
    /\ game.top_card[1] = Eight
    /\ game.current_suit # game.top_card[2]
    /\ reshuffled(game)

\* C34 as stated: the win is stable.  Once a reachable state has status()
\* Win{player: p}, every state reached from it by a further accepted action
\* has status() Win{player: p} too.
C34_WinIsStable ==
    [][(/\ status(game)[1] = "Win"
        /\ result' = "Ok"
        /\ moves(game') # moves(game)) =>
            status(game') = status(game)]_vars

\* ===================================================== marooned, again
\* C36: the board invariant.  In every state reachable from settings that
\* Settings::new accepts, both players stand on positions of the board, the
\* two never stand on the same position, neither stands on a removed
\* position, every removed position is on the board and no position appears
\* twice in removed_positions().
C36_BoardInvariant ==
    LET removed == removed_positions(game)
    IN  /\ \A player \in marooned_Player :
                /\ on_board(game, player_position(game, player))
                /\ ~contains(removed, player_position(game, player))
        /\ player_position(game, P1) # player_position(game, P2)
        /\ \A i \in DOMAIN removed : on_board(game, removed[i])
        /\ \A i, j \in DOMAIN removed : removed[i] = removed[j] => i = j

\* Both players have moved in a game that began with positions removed,
\* and one of them has removed the position it started on.
C36_Witness ==
    /\ result = "Ok"
    /\ Len(game.history) >= 2
    /\ game.settings.starting_removed_positions # <<>>
    /\ \E i \in DOMAIN game.history :
            game.history[i].remove =
                game.settings.starting_player_positions[game.history[i].player]

\* A play that keeps applying valid actions: from a built game, the player
\* whose turn it is makes one of valid_actions(), as long as there is one.
MakeValidMove ==
    \E action \in toSet(marooned_valid_actions(game)) :
        /\ game' = make_move(game, action).game
        /\ result' = result_tag(make_move(game, action).result)
        /\ other' = game

\* The boards whose every play is followed to its end: those of Builders
\* with six positions at most, and boards of six positions that begin with
\* one position removed.
PlayBuilders ==
    {builder \in Builders : builder.rows * builder.cols <= 6}
        \cup {SettingsBuilder(2, 3, None, None, <<<<0, 0>>>>),
              SettingsBuilder(2, 3, None, None, <<<<0, 1>>>>),
              SettingsBuilder(3, 2, None, None, <<<<0, 1>>>>)}

MaroonedPlayInit ==
    /\ \E builder \in PlayBuilders :
          /\ build_game(builder).tag = "Ok"
          /\ game = build_game(builder).value
    /\ other = game
    /\ result = "Built"

MaroonedPlayNext == MakeValidMove

MaroonedPlaySpec ==
    MaroonedPlayInit /\ [][MaroonedPlayNext]_vars /\ WF_vars(MaroonedPlayNext)

\* An accepted move adds one position, not removed before, to
\* removed_positions().
removes_one_more ==
    /\ Len(removed_positions(game')) = Len(removed_positions(game)) + 1
    /\ SubSeq(removed_positions(game'), 1, Len(removed_positions(game)))
            = removed_positions(game)
    /\ ~contains(removed_positions(game), last(removed_positions(game')))

\* C37: termination.  Every accepted make_move adds exactly one new
\* position to removed_positions(), so on a rows x cols board no sequence
\* of accepted moves is longer than rows * cols less the number of
\* positions removed at the start, and every play that keeps applying
\* valid actions eventually reaches a state with status() Win.
C37_Termination ==
    /\ [][game'.history # game.history => removes_one_more]_vars
    /\ [](Len(game.history) <=
            game.settings.dimensions.rows * game.settings.dimensions.cols
                - Len(game.settings.starting_removed_positions))
    /\ <>(marooned_status(game)[1] = "Win")

\* A play of three accepted moves has ended in a Win for P1, on a board of
\* six positions that began with one removed.
C37_Witness ==
    /\ result = "Ok"
    /\ Len(game.history) = 3
    /\ Len(removed_positions(game)) = 4
    /\ marooned_status(game) = <<"Win", P1>>

\* ===================================================== tic-tac-toe, again
\* C38 as stated: the win is stable.  Once a reachable state has status()
\* Win{player, positions}, every state reached from it by a further
\* accepted make_move reports Win with the same player.
C38_WinIsStable ==
    [][(/\ ttt_status(game)[1] = "Win"
        /\ result' = "Ok"
        /\ game'.history = Append(game.history, last(game'.history))) =>
            /\ ttt_status(game')[1] = "Win"
            /\ ttt_status(game')[2] = ttt_status(game)[2]]_vars

\* ============================================================= solitaire
\* games/solitaire/traditional/mod.rs.  A game is built from a deck of 52
\* cards; the actions modelled are the three whose application the
\* library implements (MoveCardToCol ends in todo!()).

\* The columns of the tableau, Col0 to Col6, in the order of the enum.
solitaire_Col_ALL == <<0, 1, 2, 3, 4, 5, 6>>

\* The deck of the library's test: STANDARD_DECK sorted, which orders the
\* cards by rank from Ace, and by suit within a rank.
sorted_deck ==
    [i \in 1..52 |-> <<((i - 1) \div 4) + 1, SuitALL[((i - 1) % 4) + 1]>>]

reverse(s) == [i \in DOMAIN s |-> s[Len(s) + 1 - i]]

\* The decks games are built from: the constant, the sorted deck, the
\* sorted deck from its end, and the constant shuffled from each seed.
SolitaireDecks ==
    {STANDARD_DECK, sorted_deck, reverse(sorted_deck)}
        \cup {shuffle(STANDARD_DECK, into_rng(seed)).cards : seed \in Seeds}

FlipCards == <<"FlipCards">>

MoveCardToFoundation(card) == <<"MoveCardToFoundation", card>>

ReloadStock == <<"ReloadStock">>

\* Foundations::new
Foundations_new == [suit \in Suits |-> None]

\* Foundations::next_for_suit
next_for_suit(foundations, suit) ==
    IF foundations[suit] = None
        THEN Some(<<Ace, suit>>)
        ELSE LET next == next_with_ace_low(foundations[suit][2])
             IN  IF next = None THEN None ELSE Some(<<next[2], suit>>)

\* Foundations::add
Foundations_add(foundations, card) ==
    LET needed == next_for_suit(foundations, card[2])
    IN  IF needed = Some(card)
            THEN Ok([foundations EXCEPT ![card[2]] = Some(card[1])])
            ELSE Err(<<"CannotPlaceOnFoundation", card, needed>>)

\* GameState::new; deck[k] of the source is deck[k + 1] here.
solitaire_new(deck) ==
    [facedown |-> [col \in 0..6 |->
                      [i \in 1..col |-> deck[7 + (col * (col - 1)) \div 2 + i]]],
     faceup |-> [col \in 0..6 |-> <<deck[col + 1]>>],
     foundations |-> Foundations_new,
     stock |-> SubSeq(deck, 29, 52),
     talon |-> <<>>]

\* Vec::pop, the vector that is left
pop(s) == IF s = <<>> THEN s ELSE SubSeq(s, 1, Len(s) - 1)

\* GameState::exposed_cards
exposed_cards(g) ==
    LET cols == SelectSeq(solitaire_Col_ALL, LAMBDA col : g.faceup[col] # <<>>)
    IN  [i \in DOMAIN cols |-> <<cols[i], last(g.faceup[cols[i]])>>]

\* GameState::actionable_talon_card
actionable_talon_card(g) ==
    IF g.talon = <<>> THEN None ELSE Some(g.talon[1])

\* GameState::move_card_to_foundation
move_card_to_foundation(g, card) ==
    LET found == SelectSeq(exposed_cards(g), LAMBDA exposed : exposed[2] = card)
        exposed_card_column == IF found = <<>> THEN None ELSE Some(found[1][1])
        is_top_of_talon == actionable_talon_card(g) = Some(card)
        added == Foundations_add(g.foundations, card)
        talon == IF is_top_of_talon THEN pop(g.talon) ELSE g.talon
        faceup == IF exposed_card_column = None
                      THEN g.faceup
                      ELSE [g.faceup EXCEPT ![exposed_card_column[2]] = pop(@)]
    IN  IF exposed_card_column # None \/ is_top_of_talon
            THEN IF added.tag = "Err"
                     THEN [game |-> g, result |-> added]
                     ELSE [game |-> [g EXCEPT !.foundations = added.value,
                                              !.talon = talon,
                                              !.faceup = faceup],
                           result |-> Ok(<<>>)]
            ELSE [game |-> g, result |-> Err(<<"CannotMoveNonExposedCard">>)]

\* GameState::reload_stock
reload_stock(g) ==
    IF g.stock = <<>>
        THEN [game |-> [g EXCEPT !.stock = reverse(g.talon), !.talon = <<>>],
              result |-> Ok(<<>>)]
        ELSE [game |-> g, result |-> Err(<<"CannotFlipWithEmptyStock">>)]

\* GameState::flip_cards
flip_cards(g) ==
    IF g.stock # <<>>
        THEN [game |-> [g EXCEPT !.stock = pop(g.stock),
                                 !.talon = Append(g.talon, last(g.stock))],
              result |-> Ok(<<>>)]
        ELSE [game |-> g, result |-> Err(<<"CannotFlipWithEmptyStock">>)]

\* GameState::apply_action, for the actions that return
solitaire_apply_action(g, action) ==
    CASE action[1] = "ReloadStock" -> reload_stock(g)
      [] action[1] = "FlipCards" -> flip_cards(g)
      [] action[1] = "MoveCardToFoundation" -> move_card_to_foundation(g, action[2])

\* ------------------------------------------------------ solitaire, state
\* game is the GameState, result the outcome of the last action and other
\* the last action.

SolitaireInit ==
    /\ game \in {solitaire_new(deck) : deck \in SolitaireDecks}
    /\ result = "New"
    /\ other = <<"new">>

ApplyFlipCards ==
    /\ game' = solitaire_apply_action(game, FlipCards).game
    /\ result' = result_tag(solitaire_apply_action(game, FlipCards).result)
    /\ other' = FlipCards

ApplyReloadStock ==
    /\ game' = solitaire_apply_action(game, ReloadStock).game
    /\ result' = result_tag(solitaire_apply_action(game, ReloadStock).result)
    /\ other' = ReloadStock

\* The cards a player sees: those of the talon and those face up in the
\* tableau.
cards_in_sight(g) ==
    toSet(g.talon) \cup UNION {toSet(g.faceup[col]) : col \in 0..6}

ApplyMoveCardToFoundation ==
    \E card \in cards_in_sight(game) :
        /\ game' = solitaire_apply_action(game, MoveCardToFoundation(card)).game
        /\ result' =
            result_tag(solitaire_apply_action(game, MoveCardToFoundation(card)).result)
        /\ other' = MoveCardToFoundation(card)

SolitaireNext ==
    \/ ApplyFlipCards
    \/ ApplyReloadStock
    \/ ApplyMoveCardToFoundation

SolitaireSpec == SolitaireInit /\ [][SolitaireNext]_vars

\* ----------------------------------------------------- solitaire, claims

\* C39 as stated: ReloadStock on a stock that is not empty is rejected with
\* CannotReloadStockWhenStockIsNotEmpty and leaves stock and talon as they
\* were; on an empty stock it succeeds and the stock becomes the talon
\* reversed, so that the cards flip again in their first order; FlipCards
\* on an empty stock is rejected with CannotFlipWithEmptyStock.
C39_ReloadStock ==
    [][/\ (other' = ReloadStock /\ game.stock # <<>>) =>
              /\ result' = "CannotReloadStockWhenStockIsNotEmpty"
              /\ game'.stock = game.stock
              /\ game'.talon = game.talon
       /\ (other' = ReloadStock /\ game.stock = <<>>) =>
              /\ result' = "Ok"
              /\ game'.stock = reverse(game.talon)
              /\ game'.talon = <<>>
       /\ (other' = FlipCards /\ game.stock = <<>>) =>
              /\ result' = "CannotFlipWithEmptyStock"
              /\ game' = game]_vars

\* The number of times a card lies in the stock, the talon and the tableau.
held(g, card) ==
    LET count(s) == Len(SelectSeq(s, LAMBDA c : c = card))
        column(i) == count(g.faceup[i - 1]) + count(g.facedown[i - 1])
        RECURSIVE columns(_)
        columns(i) == IF i = 0 THEN 0 ELSE column(i) + columns(i - 1)
    IN  count(g.stock) + count(g.talon) + columns(7)

\* A card is on the foundation of its suit when the foundation shows its
\* rank or a later one.
on_foundation(g, card) ==
    /\ g.foundations[card[2]] # None
    /\ card[1] <= g.foundations[card[2]][2]

places(g, card) == held(g, card) + (IF on_foundation(g, card) THEN 1 ELSE 0)

\* C40 as stated: an accepted MoveCardToFoundation(card) takes exactly that
\* card from the talon or the tableau, the foundation of its suit then
\* shows its rank, the stock and the face-down cards are as they were, and
\* every card is in exactly one place; a rejected one changes nothing.
C40_MoveToFoundationConservesCards ==
    [][other'[1] = "MoveCardToFoundation" =>
          IF result' = "Ok"
              THEN /\ game'.foundations[other'[2][2]] = Some(other'[2][1])
                   /\ \A card \in toSet(STANDARD_DECK) :
                          /\ held(game', card) =
                                held(game, card) - (IF card = other'[2] THEN 1 ELSE 0)
                          /\ places(game', card) = 1
                   /\ game'.stock = game.stock
                   /\ game'.facedown = game.facedown
              ELSE game' = game]_vars

====
